---- MODULE Spec2Model ----
(***************************************************************************)
(* Model of ipose.raster.Rectangle (src/ipose/raster.py): the integer      *)
(* rectangle, its padding and fitting primitives, and the face-crop region *)
(* deriver Rectangle.setup_for_face_cropping.                              *)
(*                                                                         *)
(* The methods are pure functions of the receiver and of their arguments;  *)
(* they are operators here.  The state machine holds one Rectangle object  *)
(* (self), and one action per public method applies that method to it and  *)
(* records the call and what came back (a returned value or a raised       *)
(* RuntimeError).                                                          *)
(*                                                                         *)
(* The objects of a call live in heap.objects, a sequence in which an      *)
(* object's identity is its index: the receiver is object 1, an object     *)
(* that a method constructs is appended, and heap.id is the identity of the *)
(* object the call returned (0 when it returned no object).                *)
(*                                                                         *)
(* Python values:                                                          *)
(*   - an optional integer argument is <<>> (None) or <<v>> (the int v);   *)
(*   - a float argument is the exact rational <<num, den>>, den > 0; the   *)
(*     values drawn are dyadic (or listed examples), for which the float   *)
(*     product with a small integer is exact;                              *)
(*   - a call's outcome is [kind |-> "return", value |-> v] or             *)
(*     [kind |-> "raise", value |-> message tag].                          *)
(***************************************************************************)
EXTENDS Integers, Sequences, FiniteSets, TLC

VARIABLES self, call, ret, heap, batch

vars == <<self, call, ret, heap, batch>>

(***************************************************************************)
(* Bounds of the model.                                                    *)
(***************************************************************************)
MaxCoord == 2
MaxSide == 2
MaxImage == 5
MaxPad == 1
MaxImages == 3
MaxTile == 2

(***************************************************************************)
(* Python built-ins used by the code.                                      *)
(***************************************************************************)
None == <<>>

Some(v) == <<v>>

\* `a or b` for an optional integer a and an integer b: None and 0 are falsy.
py_or(a, b) == IF a # None /\ a[1] # 0 THEN a[1] ELSE b

min(a, b) == IF a <= b THEN a ELSE b

max(a, b) == IF a >= b THEN a ELSE b

abs(a) == IF a >= 0 THEN a ELSE -a

\* round(num / den) for den > 0: Python 3 rounds half to even.
round(num, den) ==
    LET q == num \div den
        r == num % den
    IN  IF 2 * r < den THEN q
        ELSE IF 2 * r > den THEN q + 1
        ELSE IF q % 2 = 0 THEN q ELSE q + 1

\* numpy.clip(a, a_min, a_max) == minimum(a_max, maximum(a, a_min)).
clip(a, a_min, a_max) == min(a_max, max(a, a_min))

Returned(v) == [kind |-> "return", value |-> v]

Raised(msg) == [kind |-> "raise", value |-> msg]

(***************************************************************************)
(* class Rectangle                                                         *)
(***************************************************************************)
\* Rectangle(x0, y0, width, height=None) with __post_init__: a missing
\* height is set to the width.
Rectangle(x0, y0, width, height) ==
    [x0 |-> x0, y0 |-> y0, width |-> width,
     height |-> IF height = None THEN width ELSE height[1]]

copy(r) == Rectangle(r.x0, r.y0, r.width, Some(r.height))

is_square(r) == r.width = r.height

area(r) == r.width * r.height

bounding_box(r) == <<r.x0, r.y0, r.x0 + r.width, r.y0 + r.width>>

\* A slip in __eq__: rectangles compared like __lt__ compares them, by area.
eq_by_area(r, other) == r.width * r.height = other.width * other.height

\* Rectangle.__eq__(self, other).
eq(r, other) ==
    r.x0 = other.x0 /\ r.y0 = other.y0 /\ r.width = other.width
        /\ r.height = other.height

\* Rectangle.__lt__(self, other).
lt(r, other) == area(r) < area(other)

\* A slip in pad: left defaulting to top instead of right.
pad_left_top(r, top, right, bottom, left) ==
    LET right_ == py_or(right, top)
        bottom_ == py_or(bottom, top)
        left_ == py_or(left, top)
    IN  Rectangle(r.x0 - left_, r.y0 - top, r.width + right_ + left_,
                  Some(r.height + top + bottom_))

\* pad(top, right=None, bottom=None, left=None): the defaults are applied
\* with `or`, so an explicit 0 is replaced like a missing argument.
pad(r, top, right, bottom, left) ==
    LET right_ == py_or(right, top)
        bottom_ == py_or(bottom, top)
        left_ == py_or(left, right_)
    IN  Rectangle(r.x0 - left_, r.y0 - top, r.width + right_ + left_,
                  Some(r.height + top + bottom_))

\* A slip in fits_within: the height is not compared.
fits_within_width_only(r, width, height) == r.width <= width

fits_within(r, width, height) == r.width <= width /\ r.height <= height

\* A slip in shift_to_fit: the upper clip bounds are the area's width and
\* height, the rectangle's own size not being subtracted.
shift_to_fit_upper_bound(r, width, height) ==
    IF ~fits_within(r, width, height)
    THEN Raised("does not fit")
    ELSE LET rectangle == copy(r)
         IN  Returned([rectangle EXCEPT
                 !.x0 = clip(rectangle.x0, 0, width),
                 !.y0 = clip(rectangle.y0, 0, height)])

\* A slip in shift_to_fit: y0 is clipped with the bounds of the x axis.
shift_to_fit_copy_paste(r, width, height) ==
    IF ~fits_within(r, width, height)
    THEN Raised("does not fit")
    ELSE LET rectangle == copy(r)
         IN  Returned([rectangle EXCEPT
                 !.x0 = clip(rectangle.x0, 0, width - rectangle.width),
                 !.y0 = clip(rectangle.y0, 0, width - rectangle.width)])

\* A slip in shift_to_fit: the two clip bounds are swapped.
shift_to_fit_swapped_bounds(r, width, height) ==
    IF ~fits_within(r, width, height)
    THEN Raised("does not fit")
    ELSE LET rectangle == copy(r)
         IN  Returned([rectangle EXCEPT
                 !.x0 = clip(rectangle.x0, width - rectangle.width, 0),
                 !.y0 = clip(rectangle.y0, height - rectangle.height, 0)])

shift_to_fit(r, width, height) ==
    IF ~fits_within(r, width, height)
    THEN Raised("does not fit")
    ELSE LET rectangle == copy(r)
         IN  Returned([rectangle EXCEPT
                 !.x0 = clip(rectangle.x0, 0, width - rectangle.width),
                 !.y0 = clip(rectangle.y0, 0, height - rectangle.height)])

\* `self.is_square` in `if not self.is_square:` is the bound method itself,
\* not a call of it: an object that is truthy for every rectangle.
is_square_attr(r) == TRUE

\* The padding step of setup_for_face_cropping: right, top, bottom and the
\* call self.pad(top, right, bottom).
padded_rectangle(r, horizontal_padding, top_scale_factor) ==
    LET right == round(horizontal_padding[1] * r.width, horizontal_padding[2])
        top == round(top_scale_factor[1] * right, top_scale_factor[2])
        bottom == 2 * right - top
    IN  pad(r, top, Some(right), Some(bottom), None)

\* A slip in the fallback: the largest side of the image instead of the
\* smallest.
fallback_rectangle_max(r, rectangle, image_width, image_height) ==
    LET side == max(image_width, image_height)
    IN  [rectangle EXCEPT
            !.width = side,
            !.height = side,
            !.x0 = r.x0 - (side - r.width) \div 2,
            !.y0 = r.y0 - (side - r.height) \div 2]

\* A slip in the fallback: the square is positioned from the padded
\* rectangle instead of from the candidate.
fallback_rectangle_padded(r, rectangle, image_width, image_height) ==
    LET side == min(image_width, image_height)
    IN  [rectangle EXCEPT
            !.width = side,
            !.height = side,
            !.x0 = rectangle.x0 - (side - rectangle.width) \div 2,
            !.y0 = rectangle.y0 - (side - rectangle.height) \div 2]

\* A slip in the fallback: the square is put at the origin of the image.
fallback_rectangle_corner(r, rectangle, image_width, image_height) ==
    LET side == min(image_width, image_height)
    IN  [rectangle EXCEPT !.width = side, !.height = side, !.x0 = 0, !.y0 = 0]

\* A slip in the fallback: the half difference of the sides is added.
fallback_rectangle_plus(r, rectangle, image_width, image_height) ==
    LET side == min(image_width, image_height)
    IN  [rectangle EXCEPT
            !.width = side,
            !.height = side,
            !.x0 = r.x0 + (side - r.width) \div 2,
            !.y0 = r.y0 + (side - r.height) \div 2]

\* The fallback of setup_for_face_cropping, before its shift_to_fit: the
\* padded rectangle is overwritten with the largest square of the image,
\* positioned from the candidate r.
fallback_rectangle(r, rectangle, image_width, image_height) ==
    LET side == min(image_width, image_height)
    IN  [rectangle EXCEPT
            !.width = side,
            !.height = side,
            !.x0 = r.x0 - (side - r.width) \div 2,
            !.y0 = r.y0 - (side - r.height) \div 2]

setup_for_face_cropping(r, image_width, image_height, horizontal_padding, top_scale_factor) ==
    IF ~is_square_attr(r)
    THEN Raised("is not square")
    ELSE LET rectangle == padded_rectangle(r, horizontal_padding, top_scale_factor)
         IN  IF fits_within(rectangle, image_width, image_height)
             THEN shift_to_fit(rectangle, image_width, image_height)
             ELSE shift_to_fit(
                      fallback_rectangle(r, rectangle, image_width, image_height),
                      image_width, image_height)

\* A slip in square_from_size: the offset is put on the other axis.
square_from_size_swapped(width, height) ==
    IF width = height
    THEN Rectangle(0, 0, width, Some(height))
    ELSE LET side == min(width, height)
             delta == round(width - height, 2)
         IN  IF delta > 0
             THEN Rectangle(0, delta, side, Some(side))
             ELSE Rectangle(-delta, 0, side, Some(side))

\* square_from_size(width, height): the largest centered square.
square_from_size(width, height) ==
    IF width = height
    THEN Rectangle(0, 0, width, Some(height))
    ELSE LET side == min(width, height)
             delta == round(width - height, 2)
         IN  IF delta > 0
             THEN Rectangle(delta, 0, side, Some(side))
             ELSE Rectangle(0, -delta, side, Some(side))

(***************************************************************************)
(* The same methods on objects: which object each statement constructs or  *)
(* assigns to.  A call's outcome is [objects, id]: the objects after the   *)
(* call and the identity of the returned object, 0 when the call raised.   *)
(***************************************************************************)
\* Rectangle(...) constructs a new object.
alloc(objects, r) == [objects |-> Append(objects, r), id |-> Len(objects) + 1]

\* A slip in copy: the receiver itself is handed back (`rectangle = self`).
obj_copy_alias(objects, id) == [objects |-> objects, id |-> id]

\* copy: return Rectangle(self.x0, self.y0, self.width, self.height).
obj_copy(objects, id) == alloc(objects, copy(objects[id]))

\* pad: rectangle = Rectangle(...); return rectangle.
obj_pad(objects, id, top, right, bottom, left) ==
    alloc(objects, pad(objects[id], top, right, bottom, left))

\* shift_to_fit: rectangle = self.copy(), then rectangle.x0 and rectangle.y0
\* are assigned and rectangle is returned.
obj_shift_to_fit(objects, id, width, height) ==
    IF ~fits_within(objects[id], width, height)
    THEN [objects |-> objects, id |-> 0]
    ELSE LET c == obj_copy(objects, id)
             rectangle == c.id
             shifted == shift_to_fit(objects[id], width, height).value
         IN  [objects |-> [c.objects EXCEPT ![rectangle].x0 = shifted.x0,
                                            ![rectangle].y0 = shifted.y0],
              id |-> rectangle]

\* setup_for_face_cropping: rectangle = self.pad(...); in the fallback the
\* width, height, x0 and y0 of that rectangle are assigned before
\* rectangle.shift_to_fit(...).
obj_setup_for_face_cropping(objects, id, image_width, image_height, horizontal_padding, top_scale_factor) ==
    IF ~is_square_attr(objects[id])
    THEN [objects |-> objects, id |-> 0]
    ELSE LET p == alloc(objects, padded_rectangle(objects[id], horizontal_padding,
                                                  top_scale_factor))
             rectangle == p.id
         IN  IF fits_within(p.objects[rectangle], image_width, image_height)
             THEN obj_shift_to_fit(p.objects, rectangle, image_width, image_height)
             ELSE obj_shift_to_fit(
                      [p.objects EXCEPT ![rectangle] =
                          fallback_rectangle(objects[id], @, image_width, image_height)],
                      rectangle, image_width, image_height)

(***************************************************************************)
(* Inputs.                                                                 *)
(***************************************************************************)
Coords == (-1)..MaxCoord

Sides == 0..MaxSide

Optional(S) == {None} \cup {Some(v) : v \in S}

\* Rectangles a caller constructs: every small rectangle, and the ones
\* of the documented examples and of tests/test_raster.py.
Rectangles ==
    {Rectangle(x, y, w, h) : x \in Coords, y \in Coords, w \in Sides,
                             h \in Optional(Sides)}
    \cup {Rectangle(0, 0, 100, None), Rectangle(90, 90, 20, None),
          Rectangle(100, 100, 200, None), Rectangle(-10, -10, 100, Some(100)),
          Rectangle(200, 200, 100, None)}

ImageSizes ==
    ((1..MaxImage) \X (1..MaxImage))
    \cup {<<200, 200>>, <<400, 200>>, <<100, 100>>, <<1000, 1000>>}

\* horizontal_padding >= 0: 0, 0.4, 0.5 (the default), 1.0, 10.0.
HorizontalPaddings == {<<0, 1>>, <<2, 5>>, <<1, 2>>, <<1, 1>>, <<10, 1>>}

\* top_scale_factor >= 0: 0, 1.0, 1.25 (the default), 1.5, 2.0, 2.5.
TopScaleFactors == {<<0, 1>>, <<1, 1>>, <<5, 4>>, <<3, 2>>, <<2, 1>>, <<5, 2>>}

PadValues == (-1)..MaxPad

PadArguments ==
    (PadValues \X Optional(PadValues) \X Optional(PadValues) \X Optional(PadValues))
    \cup {<<100, None, None, None>>, <<100, Some(100), None, None>>,
          <<100, Some(200), None, None>>, <<100, Some(100), Some(100), Some(100)>>,
          <<100, Some(200), Some(100), Some(200)>>}

(***************************************************************************)
(* The state machine: a Rectangle is constructed, then one method is       *)
(* called on it.                                                           *)
(***************************************************************************)
NoCall == [op |-> "none"]

NoOutcome == [kind |-> "none"]

\* No face_crop batch is running.
NoBatch == [i |-> 0]

Init ==
    /\ self \in Rectangles
    /\ call = NoCall
    /\ ret = NoOutcome
    /\ heap = [objects |-> <<self>>, id |-> 0]
    /\ batch = NoBatch

Pad ==
    /\ call = NoCall
    /\ \E a \in PadArguments :
        /\ call' = [op |-> "pad", top |-> a[1], right |-> a[2], bottom |-> a[3],
                    left |-> a[4]]
        /\ ret' = Returned(pad(self, a[1], a[2], a[3], a[4]))
        /\ heap' = obj_pad(<<self>>, 1, a[1], a[2], a[3], a[4])
    /\ self' = heap'.objects[1]
    /\ UNCHANGED batch

ShiftToFit ==
    /\ call = NoCall
    /\ \E s \in ImageSizes :
        /\ call' = [op |-> "shift_to_fit", width |-> s[1], height |-> s[2]]
        /\ ret' = shift_to_fit(self, s[1], s[2])
        /\ heap' = obj_shift_to_fit(<<self>>, 1, s[1], s[2])
    /\ self' = heap'.objects[1]
    /\ UNCHANGED batch

\* self == other
Eq ==
    /\ call = NoCall
    /\ \E other \in Rectangles :
        /\ call' = [op |-> "__eq__", other |-> other]
        /\ ret' = Returned(eq(self, other))
    /\ UNCHANGED <<self, heap, batch>>

\* self < other
Lt ==
    /\ call = NoCall
    /\ \E other \in Rectangles :
        /\ call' = [op |-> "__lt__", other |-> other]
        /\ ret' = Returned(lt(self, other))
    /\ UNCHANGED <<self, heap, batch>>

BoundingBox ==
    /\ call = NoCall
    /\ call' = [op |-> "bounding_box"]
    /\ ret' = Returned(bounding_box(self))
    /\ UNCHANGED <<self, heap, batch>>

SetupForFaceCropping ==
    /\ call = NoCall
    /\ \E s \in ImageSizes, hp \in HorizontalPaddings, tsf \in TopScaleFactors :
        /\ call' = [op |-> "setup_for_face_cropping", image_width |-> s[1],
                    image_height |-> s[2], horizontal_padding |-> hp,
                    top_scale_factor |-> tsf]
        /\ ret' = setup_for_face_cropping(self, s[1], s[2], hp, tsf)
        /\ heap' = obj_setup_for_face_cropping(<<self>>, 1, s[1], s[2], hp, tsf)
    /\ self' = heap'.objects[1]
    /\ UNCHANGED batch

Next == Pad \/ ShiftToFit \/ SetupForFaceCropping \/ Eq \/ Lt \/ BoundingBox

Spec == Init /\ [][Next]_vars

TypeOK ==
    /\ self \in [x0 : Int, y0 : Int, width : Int, height : Int]
    /\ call.op \in {"none", "pad", "shift_to_fit", "setup_for_face_cropping",
                    "__eq__", "__lt__", "bounding_box"}
    /\ ret.kind \in {"none", "return", "raise"}
    /\ (call.op = "none") = (ret.kind = "none")
    /\ heap.id \in 0..Len(heap.objects)
    /\ batch = NoBatch
    \* the returned object holds the returned value
    /\ (call.op \in {"pad", "shift_to_fit", "setup_for_face_cropping"})
       => /\ (heap.id = 0) = (ret.kind = "raise")
          /\ heap.id # 0 => heap.objects[heap.id] = ret.value

(***************************************************************************)
(* optimal_rectangular_tiling                                              *)
(***************************************************************************)
\* round(np.sqrt(num / den) + 0.5) for num >= 0 and den > 0.  With c the
\* least integer whose square is at least num / den: when the square root
\* is not an integer, adding 0.5 and rounding gives c; when it is the
\* integer c, c + 0.5 is rounded half to even.
round_sqrt_plus_half(num, den) ==
    LET c == CHOOSE k \in 0..num :
                 /\ k * k * den >= num
                 /\ \A j \in 0..(k - 1) : j * j * den < num
    IN  IF c * c * den = num /\ c % 2 = 1 THEN c + 1 ELSE c

\* num_cols = round(np.sqrt(aspect_ratio * num_images * tile_height /
\* tile_width) + 0.5)
num_cols(num_images, tile_width, tile_height, aspect_ratio) ==
    round_sqrt_plus_half(aspect_ratio[1] * num_images * tile_height,
                         aspect_ratio[2] * tile_width)

\* A slip in num_rows: an integer division.
num_rows_floor(num_images, cols) == num_images \div cols

\* num_rows = round(num_images / num_cols + 0.5), for num_cols > 0.
num_rows(num_images, cols) == round(2 * num_images + cols, 2 * cols)

\* A slip in the slot of tile i: the row is taken from the row count.
tile_offset_rows(i, cols, rows, tile_width, tile_height) ==
    <<(i % cols) * tile_width, (i \div rows) * tile_height>>

\* The pixel offset of tile i: col = i % num_cols, row = i // num_cols.
tile_offset(i, cols, rows, tile_width, tile_height) ==
    <<(i % cols) * tile_width, (i \div cols) * tile_height>>

\* A slip in the draw: the tile indices are left in their order.
TilePermutations_unshuffled(num_tiles) == {[i \in 0..(num_tiles - 1) |-> i]}

\* The permutations random.sample(range(num_tiles), num_tiles) can return:
\* functions from the positions 0..num_tiles-1 onto the tile indices.
TilePermutations(num_tiles) == Permutations(0..(num_tiles - 1))

\* The body of optimal_rectangular_tiling once tile_permutation is drawn.
tiling_of(num_images, cols, rows, tile_width, tile_height, tile_permutation) ==
    LET num_tiles == cols * rows
        placed == {i \in 0..(num_tiles - 1) : tile_permutation[i] < num_images}
    IN  [index \in {tile_permutation[i] : i \in placed} |->
            LET i == CHOOSE j \in placed : tile_permutation[j] = index
            IN  tile_offset(i, cols, rows, tile_width, tile_height)]

\* The outcomes of optimal_rectangular_tiling(num_images, tile_width,
\* tile_height=None, aspect_ratio), one for each permutation drawn.
optimal_rectangular_tiling(num_images, tile_width, tile_height, aspect_ratio) ==
    LET height == IF tile_height = None THEN tile_width ELSE tile_height[1]
        cols == num_cols(num_images, tile_width, height, aspect_ratio)
        rows == num_rows(num_images, cols)
    IN  IF cols = 0
        THEN {Raised("ZeroDivisionError")}
        ELSE IF cols * rows < num_images
        THEN {Raised("tiles are not enough")}
        ELSE {Returned(tiling_of(num_images, cols, rows, tile_width, height, p)) :
                 p \in TilePermutations(cols * rows)}

(***************************************************************************)
(* Rectangle.__post_init__ on values of any type.  A value is a record of  *)
(* its Python type and of the number it holds, as a fraction.              *)
(***************************************************************************)
Item(type, num, den) == [type |-> type, value |-> <<num, den>>]

\* The None object as a value; the number it carries has no meaning.
NoneItem == Item("NoneType", 0, 1)

\* The types registered as numbers.Integral: int, its subclass bool and the
\* numpy integer types.
IntegralTypes == {"int", "bool", "numpy.int64"}

\* A slip in the type test: isinstance(item, int), which the numpy integer
\* types do not pass.
isinstance_int(item) == item.type \in {"int", "bool"}

\* isinstance(item, numbers.Integral)
isinstance_Integral(item) == item.type \in IntegralTypes

\* Rectangle(x0, y0, width, height=None): the dataclass stores the values
\* and __post_init__ sets the height and tests the four types.
post_init(x0, y0, width, height) ==
    LET h == IF height = NoneItem THEN width ELSE height
    IN  IF \E item \in {x0, y0, width, h} : ~isinstance_Integral(item)
        THEN Raised("Wrong type")
        ELSE Returned([x0 |-> x0, y0 |-> y0, width |-> width, height |-> h])

(***************************************************************************)
(* pipe._output_file_path.  A file name is a sequence of characters and a  *)
(* path is a folder and a file name.                                       *)
(***************************************************************************)
Path(folder, name) == [folder |-> folder, name |-> name]

\* str.rfind('.') counted from 1: the position of the last dot, 0 if none.
rfind_dot(name) ==
    LET dots == {i \in 1..Len(name) : name[i] = "."}
    IN  IF dots = {} THEN 0 ELSE CHOOSE i \in dots : \A j \in dots : j <= i

\* pathlib.Path(...).stem: the name without its last suffix; a leading or
\* a trailing dot does not start a suffix.
stem(name) ==
    LET i == rfind_dot(name)
    IN  IF 1 < i /\ i < Len(name) THEN SubSeq(name, 1, i - 1) ELSE name

\* _output_file_path(file_path, output_folder=, file_type=, suffix=)
output_file_path(file_path, output_folder, file_type, suffix) ==
    LET file_name == stem(file_path.name)
        suffixed == IF suffix # None THEN file_name \o <<"_">> \o suffix[1]
                    ELSE file_name
    IN  Returned(Path(output_folder, suffixed \o file_type))

(***************************************************************************)
(* utils.check_input_file.  The file system says what a path names:        *)
(* nothing ("missing"), a directory or a regular file.                     *)
(***************************************************************************)
\* str.lower() of one character.
lower_char(c) ==
    CASE c = "P" -> "p"
      [] c = "N" -> "n"
      [] c = "G" -> "g"
      [] c = "D" -> "d"
      [] c = "F" -> "f"
      [] c = "A" -> "a"
      [] OTHER -> c

\* str.lower()
lower(string) == [i \in 1..Len(string) |-> lower_char(string[i])]

\* pathlib.Path(...).suffix: the last suffix of the name with its dot, the
\* empty string when there is none.
suffix_of(name) ==
    LET i == rfind_dot(name)
    IN  IF 1 < i /\ i < Len(name) THEN SubSeq(name, i, Len(name)) ELSE <<>>

\* check_input_file(file_path, *extensions); file_path is a str or a Path
\* naming `path`, and `kind` is what the file system holds there.
check_input_file(file_path, kind, extensions) ==
    LET path == file_path.path
        suffix == suffix_of(path.name)
        lowered == {lower(extensions[i]) : i \in 1..Len(extensions)}
    IN  IF kind = "missing" THEN Raised("Could not find file")
        ELSE IF kind # "file" THEN Raised("is not a regular file")
        ELSE IF Len(extensions) # 0 /\ suffix \notin lowered
        THEN Raised("Unexpected file extension")
        ELSE Returned(None)

(***************************************************************************)
(* opts: the declared options and the lookups of their defaults.           *)
(***************************************************************************)
OptionKeys ==
    {"scale-factor", "min-neighbors", "min-size", "horizontal-padding",
     "top-scale-factor", "output-size", "circular-mask", "output-folder",
     "suffix", "interactive"}

\* _OPTION_DICT[key]['default']
OPTION_DICT ==
    [key \in OptionKeys |->
        CASE key = "scale-factor" -> <<11, 10>>
          [] key = "min-neighbors" -> 2
          [] key = "min-size" -> <<175, 1000>>
          [] key = "horizontal-padding" -> <<2, 5>>
          [] key = "top-scale-factor" -> <<5, 4>>
          [] key = "output-size" -> 100
          [] key = "circular-mask" -> FALSE
          [] key = "output-folder" -> "data"
          [] key = "suffix" -> None
          [] key = "interactive" -> FALSE]

\* default_option_value(key): return _OPTION_DICT[key]['default']
default_option_value(key) ==
    IF key \in DOMAIN OPTION_DICT
    THEN Returned(OPTION_DICT[key])
    ELSE Raised("KeyError")

\* default_option_dict(*keys): the function takes no argument, and reads
\* `value.default` on the dict that declares each option.
default_option_dict(keys) ==
    IF keys # {} THEN Raised("TypeError")
    ELSE IF DOMAIN OPTION_DICT # {} THEN Raised("AttributeError")
    ELSE Returned(OPTION_DICT)

(***************************************************************************)
(* The module-level functions: one call of one function.                   *)
(***************************************************************************)
NoObject == "module"

NumImages == 0..MaxImages

TileSides == 1..MaxTile

\* aspect_ratio > 0: 0.5, 1.0, 1.414 (the default), 2.0.
AspectRatios == {<<1, 2>>, <<1, 1>>, <<707, 500>>, <<2, 1>>}

Items ==
    {Item(t, v, 1) : t \in IntegralTypes, v \in 0..1}
    \cup {Item("float", 2, 1), Item("float", 5, 2), Item("str", 2, 1), NoneItem}

Folders == {"data", "out"}

FileNames ==
    {<<"a">>, <<"a", ".", "p", "n", "g">>, <<"a", ".", "b", ".", "p", "n", "g">>,
     <<".", "a">>, <<"a", "_", "x", ".", "p", "n", "g">>, <<"a", ".", "j", "p", "g">>}

FileTypes == {<<".", "p", "n", "g">>, <<".", "j", "p", "g">>, <<>>}

Suffixes == Optional({<<"x">>, <<>>})

ModuleInit ==
    /\ self = NoObject
    /\ call = NoCall
    /\ ret = NoOutcome
    /\ heap = [objects |-> <<>>, id |-> 0]
    /\ batch = NoBatch

OptimalRectangularTiling ==
    /\ call = NoCall
    /\ \E n \in NumImages, w \in TileSides, h \in Optional(TileSides),
          ar \in AspectRatios :
        /\ call' = [op |-> "optimal_rectangular_tiling", num_images |-> n,
                    tile_width |-> w, tile_height |-> h, aspect_ratio |-> ar]
        /\ ret' \in optimal_rectangular_tiling(n, w, h, ar)
    /\ UNCHANGED <<self, heap, batch>>

NewRectangle ==
    /\ call = NoCall
    /\ \E x0 \in Items, y0 \in Items, width \in Items, height \in Items :
        /\ call' = [op |-> "Rectangle", x0 |-> x0, y0 |-> y0, width |-> width,
                    height |-> height]
        /\ ret' = post_init(x0, y0, width, height)
    /\ UNCHANGED <<self, heap, batch>>

OutputFilePath ==
    /\ call = NoCall
    /\ \E folder \in Folders, name \in FileNames, output_folder \in Folders,
          file_type \in FileTypes, suffix \in Suffixes :
        /\ call' = [op |-> "_output_file_path", file_path |-> Path(folder, name),
                    output_folder |-> output_folder, file_type |-> file_type,
                    suffix |-> suffix]
        /\ ret' = output_file_path(Path(folder, name), output_folder, file_type,
                                   suffix)
    /\ UNCHANGED <<self, heap, batch>>

\* Names of input files, in lower, upper and mixed case, and without suffix.
InputNames ==
    {<<"a", ".", "p", "n", "g">>, <<"A", ".", "P", "N", "G">>,
     <<"a", ".", "P", "n", "g">>, <<"a">>, <<"a", ".", "b", ".", "p", "d", "f">>}

ExtensionLists ==
    {<<>>, << <<".", "p", "n", "g">> >>, << <<".", "P", "N", "G">> >>,
     << <<".", "p", "d", "f">> >>,
     << <<".", "p", "d", "f">>, <<".", "p", "n", "g">> >>,
     << <<".", "P", "D", "F">>, <<".", "j", "p", "g">> >>}

PathTypes == {"str", "Path"}

FileKinds == {"missing", "directory", "file"}

CheckInputFile ==
    /\ call = NoCall
    /\ \E type \in PathTypes, folder \in Folders, name \in InputNames,
          kind \in FileKinds, extensions \in ExtensionLists :
        /\ call' = [op |-> "check_input_file",
                    file_path |-> [type |-> type, path |-> Path(folder, name)],
                    kind |-> kind, extensions |-> extensions]
        /\ ret' = check_input_file([type |-> type, path |-> Path(folder, name)],
                                   kind, extensions)
    /\ UNCHANGED <<self, heap, batch>>

\* Keys a caller looks up: the declared ones and some that are not.
LookupKeys == OptionKeys \cup {"ops", "overwrite", "top_scale_factor"}

\* The keys a caller requests in bulk; none stands for all of them.
RequestedKeys == {{}, {"output-folder"}, {"interactive", "suffix"}, OptionKeys}

SquareFromSize ==
    /\ call = NoCall
    /\ \E s \in ImageSizes :
        /\ call' = [op |-> "square_from_size", width |-> s[1], height |-> s[2]]
        /\ ret' = Returned(square_from_size(s[1], s[2]))
    /\ UNCHANGED <<self, heap, batch>>

DefaultOptionValue ==
    /\ call = NoCall
    /\ \E key \in LookupKeys :
        /\ call' = [op |-> "default_option_value", key |-> key]
        /\ ret' = default_option_value(key)
    /\ UNCHANGED <<self, heap, batch>>

DefaultOptionDict ==
    /\ call = NoCall
    /\ \E keys \in RequestedKeys :
        /\ call' = [op |-> "default_option_dict", keys |-> keys]
        /\ ret' = default_option_dict(keys)
    /\ UNCHANGED <<self, heap, batch>>

ModuleNext ==
    \/ OptimalRectangularTiling
    \/ NewRectangle
    \/ OutputFilePath
    \/ CheckInputFile
    \/ DefaultOptionValue
    \/ DefaultOptionDict
    \/ SquareFromSize

ModuleSpec == ModuleInit /\ [][ModuleNext]_vars

(***************************************************************************)
(* pipe.face_crop.  Keyword arguments are functions from keys to values.   *)
(***************************************************************************)
MaxFiles == 2

\* list.sort(): a stable insertion of each element with __lt__.
RECURSIVE insort(_, _)
insort(sorted, x) ==
    IF sorted = <<>> THEN <<x>>
    ELSE IF lt(x, Head(sorted)) THEN <<x>> \o sorted
    ELSE <<Head(sorted)>> \o insort(Tail(sorted), x)

RECURSIVE sort(_)
sort(candidates) ==
    IF candidates = <<>> THEN <<>>
    ELSE insort(sort(SubSeq(candidates, 1, Len(candidates) - 1)),
                candidates[Len(candidates)])

\* A slip in the detector wrapper: the candidates are not sorted.
run_face_recognition_unsorted(file) ==
    IF ~file.is_file THEN Raised("RuntimeError") ELSE Returned(file.detected)

\* run_face_recognition(file_path): fails on a path that is not a regular
\* file, else returns the rectangles of the classifier sorted by area.
run_face_recognition(file) ==
    IF ~file.is_file THEN Raised("RuntimeError") ELSE Returned(sort(file.detected))

FACE_CROP_VALID_KWARGS ==
    {"scale_factor", "min_neighbors", "min_size", "horizontal_padding",
     "top_scale_factor", "output_size", "circular_mask", "output_folder",
     "file_type", "suffix", "overwrite", "interactive"}

\* _filter_kwargs(*keys, **kwargs)
filter_kwargs(keys, kwargs) == [key \in DOMAIN kwargs \cap keys |-> kwargs[key]]

\* _check_kwargs(valid_keys, **kwargs)
check_kwargs(valid_keys, kwargs) ==
    IF \E key \in DOMAIN kwargs : key \notin valid_keys
    THEN Raised("Invalid keyword argument")
    ELSE Returned(None)

\* The declared default of an option, under the key the pipeline uses.
default_value(key) ==
    CASE key = "scale_factor" -> <<11, 10>>
      [] key = "min_neighbors" -> 2
      [] key = "min_size" -> <<175, 1000>>
      [] key = "horizontal_padding" -> <<2, 5>>
      [] key = "top_scale_factor" -> <<5, 4>>
      [] key = "output_size" -> 100
      [] key = "circular_mask" -> FALSE
      [] key = "output_folder" -> "data"
      [] key = "suffix" -> None
      [] key = "overwrite" -> FALSE
      [] key = "interactive" -> FALSE

\* ipose.opts.default_kwargs(*keys): a dictionary of the requested keys and
\* their defaults.  No default of file_type is declared: any file type.
default_kwargs(keys) ==
    {[key \in keys |-> IF key = "file_type" THEN file_type ELSE default_value(key)] :
        file_type \in {<<".", "p", "n", "g">>, <<".", "j", "p", "g">>}}

\* dict.update(**kwargs)
update(options, kwargs) ==
    [key \in DOMAIN options \cup DOMAIN kwargs |->
        IF key \in DOMAIN kwargs THEN kwargs[key] ELSE options[key]]

\* _process_kwargs(valid_keys, **kwargs): the outcomes it can have.
process_kwargs(valid_keys, kwargs) ==
    IF check_kwargs(valid_keys, kwargs).kind = "raise"
    THEN {check_kwargs(valid_keys, kwargs)}
    ELSE {Returned(update(options, kwargs)) : options \in default_kwargs(valid_keys)}

\* The body of the loop of face_crop for one file: the outcome is "saved"
\* with what was written, "return" when the detection failed, or "raise".
face_crop_file(file, options) ==
    LET crop_opts == filter_kwargs({"horizontal_padding", "top-scale-factor"}, options)
        detection == run_face_recognition(file)
        num_candidates == Len(detection.value)
        image_size == file.size
        candidates ==
            IF num_candidates = 0
            THEN Append(detection.value, square_from_size(image_size[1], image_size[2]))
            ELSE detection.value
        original_rectangle == candidates[Len(candidates)]
        horizontal_padding ==
            IF "horizontal_padding" \in DOMAIN crop_opts
            THEN crop_opts["horizontal_padding"] ELSE <<1, 2>>
        top_scale_factor ==
            IF "top_scale_factor" \in DOMAIN crop_opts
            THEN crop_opts["top_scale_factor"] ELSE <<5, 4>>
        final_rectangle ==
            setup_for_face_cropping(original_rectangle, image_size[1], image_size[2],
                                    horizontal_padding, top_scale_factor)
        path == output_file_path(file.path, options["output_folder"],
                                 options["file_type"], options["suffix"])
    IN  IF detection.kind = "raise" THEN [kind |-> "return"]
        ELSE IF "top-scale-factor" \in DOMAIN crop_opts THEN Raised("TypeError")
        ELSE IF final_rectangle.kind = "raise" THEN final_rectangle
        ELSE IF path.kind = "raise" THEN path
        ELSE [kind |-> "saved",
              value |-> [file |-> file, candidates |-> candidates,
                         original_rectangle |-> original_rectangle,
                         final_rectangle |-> final_rectangle.value,
                         box |-> bounding_box(final_rectangle.value),
                         path |-> path.value]]

File(name, is_file, size, detected) ==
    [path |-> Path("data", name), is_file |-> is_file, size |-> size,
     detected |-> detected]

\* The files of a batch: a path that is not a file, images without a face
\* (square, wide, tall), with one face, with several faces in every order
\* of their areas, and with a detection that is not square.
Files ==
    {File(<<"m", ".", "p", "n", "g">>, FALSE, <<1, 1>>, <<>>),
     File(<<"n", ".", "p", "n", "g">>, TRUE, <<4, 4>>, <<>>),
     File(<<"w", ".", "j", "p", "g">>, TRUE, <<7, 4>>, <<>>),
     File(<<"t", ".", "p", "n", "g">>, TRUE, <<4, 7>>, <<>>),
     File(<<"a", ".", "p", "n", "g">>, TRUE, <<8, 8>>, <<Rectangle(2, 2, 2, None)>>),
     File(<<"b", ".", "p", "n", "g">>, TRUE, <<8, 8>>,
          <<Rectangle(1, 1, 4, None), Rectangle(5, 5, 2, None)>>),
     File(<<"c", ".", "p", "n", "g">>, TRUE, <<8, 8>>,
          <<Rectangle(5, 5, 2, None), Rectangle(1, 1, 4, None)>>),
     File(<<"d", ".", "p", "n", "g">>, TRUE, <<8, 8>>,
          <<Rectangle(0, 0, 2, None), Rectangle(4, 4, 2, None)>>),
     File(<<"e", ".", "p", "n", "g">>, TRUE, <<8, 8>>,
          <<Rectangle(1, 1, 3, None), Rectangle(0, 0, 4, None),
            Rectangle(5, 5, 2, None)>>),
     File(<<"f", ".", "p", "n", "g">>, TRUE, <<4, 3>>,
          <<Rectangle(1, 1, 2, Some(1))>>)}

FileLists == UNION {[1..n -> Files] : n \in 1..MaxFiles}

\* The keyword arguments of the caller.
Kwargs ==
    {[key \in {} |-> None],
     [key \in {"horizontal_padding"} |-> <<1, 2>>],
     [key \in {"top_scale_factor", "suffix"} |->
         IF key = "suffix" THEN Some(<<"x">>) ELSE <<2, 1>>],
     [key \in {"output_folder", "file_type"} |->
         IF key = "output_folder" THEN "out" ELSE <<".", "j", "p", "g">>],
     [key \in {"horizontal_padding", "top_scale_factor"} |->
         IF key = "horizontal_padding" THEN <<1, 1>> ELSE <<2, 1>>],
     [key \in {"colour"} |-> TRUE]}

PipeInit ==
    /\ self = NoObject
    /\ call = NoCall
    /\ ret = NoOutcome
    /\ heap = [objects |-> <<>>, id |-> 0]
    /\ batch = NoBatch

\* face_crop(*file_list, **kwargs) up to the loop.
FaceCrop ==
    /\ call = NoCall
    /\ \E file_list \in FileLists, kwargs \in Kwargs :
        \E options \in process_kwargs(FACE_CROP_VALID_KWARGS, kwargs) :
            /\ call' = [op |-> "face_crop", file_list |-> file_list,
                        kwargs |-> kwargs]
            /\ IF options.kind = "raise"
               THEN ret' = options /\ batch' = NoBatch
               ELSE /\ ret' = NoOutcome
                    /\ batch' = [i |-> 1, options |-> options.value, saved |-> <<>>]
    /\ UNCHANGED <<self, heap>>

\* One iteration of `for file_path in file_list`.
FaceCropFile ==
    /\ call.op = "face_crop"
    /\ ret = NoOutcome
    /\ batch.i <= Len(call.file_list)
    /\ LET outcome == face_crop_file(call.file_list[batch.i], batch.options)
       IN  IF outcome.kind = "saved"
           THEN /\ batch' = [batch EXCEPT !.i = @ + 1,
                                          !.saved = Append(@, [position |-> batch.i]
                                                               @@ outcome.value)]
                /\ ret' = ret
           ELSE /\ ret' = (IF outcome.kind = "return" THEN Returned(None) ELSE outcome)
                /\ batch' = batch
    /\ UNCHANGED <<self, call, heap>>

\* The loop is exhausted: face_crop returns.
FaceCropReturn ==
    /\ call.op = "face_crop"
    /\ ret = NoOutcome
    /\ batch.i > Len(call.file_list)
    /\ ret' = Returned(None)
    /\ UNCHANGED <<self, call, heap, batch>>

PipeNext == FaceCrop \/ FaceCropFile \/ FaceCropReturn

PipeSpec == PipeInit /\ [][PipeNext]_vars

(***************************************************************************)
(* Vocabulary of the properties.                                           *)
(***************************************************************************)
\* r lies inside the (0, 0, width, height) area.
Inside(r, width, height) ==
    /\ 0 <= r.x0
    /\ 0 <= r.y0
    /\ r.x0 + r.width <= width
    /\ r.y0 + r.height <= height

SetupCalled == call.op = "setup_for_face_cropping"

\* The rectangle the padding step of the pending deriver call produced.
Padded ==
    padded_rectangle(self, call.horizontal_padding, call.top_scale_factor)

CaseA == SetupCalled /\ fits_within(Padded, call.image_width, call.image_height)

CaseB == SetupCalled /\ ~fits_within(Padded, call.image_width, call.image_height)

(***************************************************************************)
(* The face-crop region deriver.                                           *)
(***************************************************************************)
\* C1: for a square candidate lying inside the image, the rectangle the
\* deriver returns lies inside the image: 0 <= x0, 0 <= y0,
\* x0 + width <= image_width and y0 + height <= image_height, whether the
\* padded rectangle fits (Case A) or not (Case B).
C1_ResultInsideImage ==
    (/\ SetupCalled
     /\ is_square(self)
     /\ Inside(self, call.image_width, call.image_height))
    => /\ ret.kind = "return"
       /\ Inside(ret.value, call.image_width, call.image_height)

\* A square candidate inside the image whose padded rectangle sticks out of
\* the image on the left and at the top, and is too large for it.
C1_Witness ==
    /\ CaseB
    /\ is_square(self)
    /\ self.width > 0
    /\ Inside(self, call.image_width, call.image_height)
    /\ Padded.x0 < 0
    /\ Padded.y0 < 0
    /\ call.image_width # call.image_height
    /\ ret.kind = "return"
    /\ ret.value.width > self.width
    /\ Inside(ret.value, call.image_width, call.image_height)

\* C2: for a square candidate and every valid pair (horizontal_padding,
\* top_scale_factor), the rectangle the deriver returns is square.
C2_ResultSquare ==
    (SetupCalled /\ is_square(self))
    => (ret.kind = "return" /\ is_square(ret.value))

\* C3: with right = round(horizontal_padding * width),
\* top = round(top_scale_factor * right) and bottom = 2 * right - top, the
\* padded rectangle is (x0 - right, y0 - top, width + 2 * right,
\* height + 2 * right), so that a square candidate gives a square padded
\* rectangle for every top_scale_factor; Rectangle(0, 0, 100, 100) with 0.4
\* and 1.25 gives Rectangle(-40, -50, 180, 180).
C3_PaddedRectangle ==
    SetupCalled =>
        LET right == round(call.horizontal_padding[1] * self.width,
                           call.horizontal_padding[2])
            top == round(call.top_scale_factor[1] * right,
                         call.top_scale_factor[2])
        IN  /\ Padded = [x0 |-> self.x0 - right, y0 |-> self.y0 - top,
                         width |-> self.width + 2 * right,
                         height |-> self.height + 2 * right]
            /\ is_square(self) => is_square(Padded)
            /\ (/\ self = Rectangle(0, 0, 100, None)
                /\ call.horizontal_padding = <<2, 5>>
                /\ call.top_scale_factor = <<5, 4>>)
               => Padded = Rectangle(-40, -50, 180, None)

\* C4: the deriver called on a candidate whose width differs from its
\* height raises the 'is not square' error and returns no rectangle.
C4_NonSquareRejected ==
    (SetupCalled /\ ~is_square(self)) => ret = Raised("is not square")

\* C5: for a square candidate of any position and size, the deriver returns
\* a rectangle and never raises the 'does not fit' error: the rectangle it
\* hands to shift_to_fit, in Case A and in Case B, satisfies fits_within.
C5_NeverDoesNotFit ==
    (SetupCalled /\ is_square(self))
    => /\ ret.kind = "return"
       /\ CaseB => fits_within(
              fallback_rectangle(self, Padded, call.image_width, call.image_height),
              call.image_width, call.image_height)

\* A square candidate larger than the image and partly outside it, with an
\* image that is not square.
C5_Witness ==
    /\ SetupCalled
    /\ is_square(self)
    /\ self.width > call.image_width
    /\ self.height > call.image_height
    /\ self.x0 < 0
    /\ call.image_width # call.image_height
    /\ ret.kind = "return"

\* The shift d along one axis puts the segment [x0, x0 + size] inside
\* [0, bound].
ShiftFits(d, x0, size, bound) == 0 <= x0 + d /\ x0 + d + size <= bound

\* The shifts of magnitude smaller than that of d.
SmallerShifts(d) == {e \in (-abs(d))..abs(d) : abs(e) < abs(d)}

\* C6: Case A: when the padded rectangle P fits within the image, the
\* result has P's width and height, x0 = min(max(P.x0, 0), image_width -
\* P.width) and y0 = min(max(P.y0, 0), image_height - P.height); no smaller
\* translation puts P inside the image, and a P that already lies inside
\* the image is returned as it is.
C6_CaseA ==
    CaseA =>
        LET P == Padded
            W == call.image_width
            H == call.image_height
        IN  /\ ret.kind = "return"
            /\ ret.value.width = P.width
            /\ ret.value.height = P.height
            /\ ret.value.x0 = min(max(P.x0, 0), W - P.width)
            /\ ret.value.y0 = min(max(P.y0, 0), H - P.height)
            /\ ShiftFits(ret.value.x0 - P.x0, P.x0, P.width, W)
            /\ ShiftFits(ret.value.y0 - P.y0, P.y0, P.height, H)
            /\ \A d \in SmallerShifts(ret.value.x0 - P.x0) :
                   ~ShiftFits(d, P.x0, P.width, W)
            /\ \A d \in SmallerShifts(ret.value.y0 - P.y0) :
                   ~ShiftFits(d, P.y0, P.height, H)
            /\ Inside(P, W, H) => ret.value = P

\* A padded rectangle that fits and is moved right (it starts left of the
\* image) and up (it ends below the image), by different amounts.
C6_Witness ==
    /\ CaseA
    /\ is_square(self)
    /\ self.width > 0
    /\ Padded.width > self.width
    /\ Padded.x0 < 0
    /\ Padded.y0 + Padded.height > call.image_height
    /\ ret.kind = "return"
    /\ ret.value.x0 = 0
    /\ ret.value.y0 = call.image_height - Padded.height
    /\ ret.value.y0 > 0
    /\ call.image_width - Padded.width # call.image_height - Padded.height

\* C7: Case B: when the padded rectangle does not fit, the result is the
\* square of side min(image_width, image_height) with x0 = clamp(
\* candidate.x0 - floor((side - candidate.width) / 2), 0, image_width -
\* side) and likewise y0: it is positioned from the candidate, and before
\* the clamp its center is within half a pixel of the candidate's; image
\* 200 x 200 and candidate Rectangle(90, 90, 20, 20) give
\* Rectangle(0, 0, 200, 200).
C7_CaseB ==
    CaseB =>
        LET W == call.image_width
            H == call.image_height
            side == IF W <= H THEN W ELSE H
            x == self.x0 - (side - self.width) \div 2
            y == self.y0 - (side - self.height) \div 2
            clamp(v, lo, hi) == IF v < lo THEN lo ELSE IF v > hi THEN hi ELSE v
        IN  /\ ret.kind = "return"
            /\ ret.value.width = side
            /\ ret.value.height = side
            /\ ret.value.x0 = clamp(x, 0, W - side)
            /\ ret.value.y0 = clamp(y, 0, H - side)
            /\ abs((2 * x + side) - (2 * self.x0 + self.width)) <= 1
            /\ abs((2 * y + side) - (2 * self.y0 + self.height)) <= 1
            /\ (self = Rectangle(90, 90, 20, None) /\ W = 200 /\ H = 200)
               => ret.value = Rectangle(0, 0, 200, None)

\* A fallback square placed strictly inside a wider image, around a
\* candidate whose padded rectangle started left of the image.
C7_Witness ==
    /\ CaseB
    /\ is_square(self)
    /\ self.width > 0
    /\ self.width < call.image_height
    /\ Padded.x0 < 0
    /\ (call.image_height - self.width) % 2 = 1
    /\ ret.kind = "return"
    /\ ret.value.x0 > 0
    /\ ret.value.x0 < call.image_width - ret.value.width
    /\ ret.value.x0 = self.x0 - (call.image_height - self.width) \div 2

(***************************************************************************)
(* pad                                                                     *)
(***************************************************************************)
PadCalled == call.op = "pad"

\* C8: pad called with four explicit integers top, right, bottom, left (0
\* and negative values included) returns (x0 - left, y0 - top,
\* width + left + right, height + top + bottom), nothing being clamped.
C8_PadExplicit ==
    (PadCalled /\ call.right # None /\ call.bottom # None /\ call.left # None)
    => ret = Returned([x0 |-> self.x0 - call.left[1],
                       y0 |-> self.y0 - call.top,
                       width |-> self.width + call.left[1] + call.right[1],
                       height |-> self.height + call.top + call.bottom[1]])

\* C9: pad(t) equals pad(t, t, t, t), pad(t, r) equals pad(t, r, t, r) and
\* pad(t, r, b) equals pad(t, r, b, r); on Rectangle(100, 100, 200, 200),
\* pad(100) is Rectangle(0, 0, 400, 400) and pad(100, 200) is
\* Rectangle(-100, 0, 600, 400).
C9_PadDefaults ==
    PadCalled =>
        LET t == call.top
            r == call.right
            b == call.bottom
        IN  /\ (r = None /\ b = None /\ call.left = None)
               => ret.value = pad(self, t, Some(t), Some(t), Some(t))
            /\ (r # None /\ b = None /\ call.left = None)
               => ret.value = pad(self, t, r, Some(t), r)
            /\ (r # None /\ b # None /\ call.left = None)
               => ret.value = pad(self, t, r, b, r)
            /\ (self = Rectangle(100, 100, 200, None) /\ t = 100 /\ r = None
                /\ b = None /\ call.left = None)
               => ret.value = Rectangle(0, 0, 400, None)
            /\ (self = Rectangle(100, 100, 200, None) /\ t = 100
                /\ r = Some(200) /\ b = None /\ call.left = None)
               => ret.value = Rectangle(-100, 0, 600, Some(400))

\* pad(t, r) with r neither 0 nor t.
C9_Witness ==
    /\ PadCalled
    /\ call.right # None
    /\ call.right # Some(0)
    /\ call.right # Some(call.top)
    /\ call.bottom = None
    /\ call.left = None
    /\ ret.value.x0 = self.x0 - call.right[1]
    /\ ret.value.width = self.width + 2 * call.right[1]
    /\ ret.value.height = self.height + 2 * call.top

(***************************************************************************)
(* fits_within and shift_to_fit                                            *)
(***************************************************************************)
ShiftCalled == call.op = "shift_to_fit"

\* C10: shift_to_fit(W, H) raises the 'does not fit' error exactly when
\* width > W or height > H, whatever x0 and y0 (that is, exactly when
\* fits_within(W, H) is false); otherwise it returns a rectangle of the same
\* width and height with x0 clamped to [0, W - width] and y0 to
\* [0, H - height], which lies inside (0, 0, W, H).  Rectangle(-10, -10,
\* 100, 100) fitted to 400 x 200 and to 100 x 100 gives Rectangle(0, 0, 100,
\* 100).
C10_ShiftToFit ==
    ShiftCalled =>
        LET W == call.width
            H == call.height
            clamp(v, lo, hi) == IF v < lo THEN lo ELSE IF v > hi THEN hi ELSE v
        IN  /\ ret.kind \in {"raise", "return"}
            /\ (ret = Raised("does not fit")) = (self.width > W \/ self.height > H)
            /\ (ret.kind = "raise") = ~fits_within(self, W, H)
            /\ ret.kind = "return"
               => /\ ret.value.width = self.width
                  /\ ret.value.height = self.height
                  /\ ret.value.x0 = clamp(self.x0, 0, W - self.width)
                  /\ ret.value.y0 = clamp(self.y0, 0, H - self.height)
                  /\ Inside(ret.value, W, H)
            /\ (/\ self = Rectangle(-10, -10, 100, Some(100))
                /\ <<W, H>> \in {<<400, 200>>, <<100, 100>>})
               => ret = Returned(Rectangle(0, 0, 100, Some(100)))

\* A rectangle narrow enough but too tall for the area, lying inside the
\* area's width: the call raises.
C10_Witness ==
    /\ ShiftCalled
    /\ self.width > 0
    /\ self.width <= call.width
    /\ self.height > call.height
    /\ 0 <= self.x0
    /\ self.x0 + self.width <= call.width
    /\ ret = Raised("does not fit")

\* C11: shift_to_fit is idempotent: when r fits within (W, H), fitting the
\* rectangle r.shift_to_fit(W, H) to (W, H) again returns it as it is; and a
\* rectangle that already lies inside (0, 0, W, H) is returned unchanged.
C11_ShiftToFitIdempotent ==
    (ShiftCalled /\ fits_within(self, call.width, call.height))
    => /\ ret.kind = "return"
       /\ shift_to_fit(ret.value, call.width, call.height) = ret
       /\ Inside(self, call.width, call.height) => ret.value = self

\* A rectangle that the first call moves along both axes.
C11_Witness ==
    /\ ShiftCalled
    /\ self.width > 0
    /\ self.height > 0
    /\ ret.kind = "return"
    /\ ret.value.x0 # self.x0
    /\ ret.value.y0 # self.y0
    /\ shift_to_fit(ret.value, call.width, call.height) = ret

(***************************************************************************)
(* Equality, bounding box, and what a call does to its receiver.           *)
(***************************************************************************)
EqCalled == call.op = "__eq__"

\* C15: rectangle equality is reflexive and symmetric and holds exactly when
\* x0, y0, width and height are pairwise equal; r == r.copy() for every
\* rectangle r, and two rectangles of equal area that differ in a field are
\* not equal.
C15_Equality ==
    EqCalled =>
        LET other == call.other
        IN  /\ ret.value \in BOOLEAN
            /\ ret.value = (/\ self.x0 = other.x0
                            /\ self.y0 = other.y0
                            /\ self.width = other.width
                            /\ self.height = other.height)
            /\ ret.value = eq(other, self)
            /\ eq(self, self)
            /\ eq(self, copy(self))
            /\ (other = copy(self)) => ret.value
            /\ (area(self) = area(other) /\ self # other) => ~ret.value

\* Two different rectangles of the same non-zero area are compared.
C15_Witness ==
    /\ EqCalled
    /\ area(self) = area(call.other)
    /\ area(self) > 0
    /\ self.x0 = call.other.x0
    /\ self.y0 = call.other.y0
    /\ self.width # call.other.width
    /\ ret.value = FALSE

\* C17: for every rectangle, square or not, bounding_box() returns
\* (xmin, ymin, xmax, ymax) = (x0, y0, x0 + width, y0 + height).
C17_BoundingBox ==
    (call.op = "bounding_box")
    => ret = Returned(<<self.x0, self.y0, self.x0 + self.width,
                        self.y0 + self.height>>)

ReturnsRectangle == {"pad", "shift_to_fit", "setup_for_face_cropping"}

\* C18: pad, shift_to_fit and the deriver (in Case A and in Case B) leave
\* the rectangle they are called on unchanged and return a new object: the
\* receiver's x0, y0, width and height after the call are those before it,
\* and the returned object is not the receiver, so that assigning to the
\* result later does not reach the receiver.
C18_ReceiverUnchanged ==
    [][(call'.op \in ReturnsRectangle)
       => /\ self' = self
          /\ heap'.objects[1] = self
          /\ heap'.id # 0
             => /\ heap'.id # 1
                /\ \A v \in Coords :
                       [heap'.objects EXCEPT ![heap'.id].x0 = v][1] = self]_vars

\* A call of shift_to_fit, and a call of the deriver in its fallback, that
\* returned a rectangle different from the receiver.
C18_Witness ==
    /\ \/ ShiftCalled
       \/ CaseB
    /\ ret.kind = "return"
    /\ ret.value.x0 # self.x0
    /\ ret.value.y0 # self.y0
    /\ heap.id > 1
    /\ heap.objects[heap.id] = ret.value
    /\ heap.objects[1] = self

(***************************************************************************)
(* The tiling planner.                                                     *)
(***************************************************************************)
TilingCalled == call.op = "optimal_rectangular_tiling"

TileHeight ==
    IF call.tile_height = None THEN call.tile_width ELSE call.tile_height[1]

Columns == num_cols(call.num_images, call.tile_width, TileHeight, call.aspect_ratio)

Rows == num_rows(call.num_images, Columns)

\* C12: for num_images >= 1, tile sizes >= 1 and aspect_ratio > 0 the grid
\* has columns >= 1, rows >= 1 and columns * rows >= num_images, and the
\* 'tiles are not enough' error is not raised.
C12_EnoughTiles ==
    (TilingCalled /\ call.num_images >= 1)
    => /\ Columns >= 1
       /\ Rows >= 1
       /\ Columns * Rows >= call.num_images
       /\ ret.kind = "return"

\* A grid with more than one row and more tiles than images.
C12_Witness ==
    /\ TilingCalled
    /\ call.num_images >= 2
    /\ Columns >= 2
    /\ Rows >= 2
    /\ Columns * Rows > call.num_images
    /\ ret.kind = "return"

\* C13: for num_images >= 1 and every permutation drawn, the plan has
\* exactly the keys 0..num_images-1, every value is a grid-aligned offset
\* (c * tile_width, r * tile_height) with 0 <= c < columns and 0 <= r <
\* rows, and no two images share an offset.
C13_Plan ==
    (TilingCalled /\ call.num_images >= 1)
    => /\ ret.kind = "return"
       /\ DOMAIN ret.value = 0..(call.num_images - 1)
       /\ \A k \in DOMAIN ret.value :
              \E c \in 0..(Columns - 1), r \in 0..(Rows - 1) :
                  ret.value[k] = <<c * call.tile_width, r * TileHeight>>
       /\ \A k, l \in DOMAIN ret.value :
              ret.value[k] = ret.value[l] => k = l

\* Three images in a grid of two rows whose first slot is left empty and
\* whose images are not in slot order.
C13_Witness ==
    /\ TilingCalled
    /\ call.num_images = 3
    /\ Rows = 2
    /\ ret.kind = "return"
    /\ \A k \in DOMAIN ret.value : ret.value[k] # <<0, 0>>
    /\ ret.value[0][2] > ret.value[2][2]

(***************************************************************************)
(* Construction and output paths.                                          *)
(***************************************************************************)
ConstructorCalled == call.op = "Rectangle"

\* The height the rectangle gets: the width when the height is omitted.
GivenHeight == IF call.height = NoneItem THEN call.width ELSE call.height

\* A value of an integer type: a Python int (or bool) or a numpy integer.
IsInteger(item) == item.type \in {"int", "bool", "numpy.int64"}

\* C16: constructing a Rectangle succeeds exactly when x0, y0, width and
\* height (the width when omitted) are all of an integer type, numpy
\* integers included; otherwise it fails with the 'Wrong type' error and
\* no Rectangle is produced.
C16_Construction ==
    ConstructorCalled
    => IF \A item \in {call.x0, call.y0, call.width, GivenHeight} : IsInteger(item)
       THEN ret = Returned([x0 |-> call.x0, y0 |-> call.y0, width |-> call.width,
                            height |-> GivenHeight])
       ELSE ret = Raised("Wrong type")

\* A square built from numpy integers with the height omitted.
C16_Witness ==
    /\ ConstructorCalled
    /\ call.x0.type = "numpy.int64"
    /\ call.width.type = "numpy.int64"
    /\ call.height = NoneItem
    /\ ret.kind = "return"
    /\ ret.value.height = call.width

OutputFilePathCalled == call.op = "_output_file_path"

\* output_folder / (stem + '_' + suffix when suffix is not None + file_type)
ExpectedOutputPath ==
    LET name == call.file_path.name
        cut == IF \E i \in 2..(Len(name) - 1) : name[i] = "."
               THEN (CHOOSE i \in 2..(Len(name) - 1) :
                        /\ name[i] = "."
                        /\ \A j \in (i + 1)..Len(name) : name[j] # ".") - 1
               ELSE Len(name)
        tail == IF call.suffix = None THEN <<>> ELSE <<"_">> \o call.suffix[1]
    IN  Path(call.output_folder, SubSeq(name, 1, cut) \o tail \o call.file_type)

\* C20: _output_file_path returns output_folder / (stem of the input file
\* + '_' + suffix when suffix is not None + file_type), and raises a
\* RuntimeError whenever that path is the path of the input file.
C20_OutputFilePath ==
    OutputFilePathCalled
    => IF ExpectedOutputPath = call.file_path
       THEN ret = Raised("RuntimeError")
       ELSE ret = Returned(ExpectedOutputPath)

\* The construction half of C20, which the code meets.
OutputPathBuilt ==
    OutputFilePathCalled => ret = Returned(ExpectedOutputPath)

(***************************************************************************)
(* The face_crop batch.                                                    *)
(***************************************************************************)
BatchRunning == call.op = "face_crop" /\ batch # NoBatch

Saved == IF BatchRunning THEN {batch.saved[k] : k \in 1..Len(batch.saved)} ELSE {}

Area(r) == r.width * r.height

\* The largest square of an image, centered up to the rounding of a pixel.
CenterSquare(r, size) ==
    /\ r.width = min(size[1], size[2])
    /\ r.height = r.width
    /\ r.x0 >= 0 /\ r.y0 >= 0
    /\ abs(r.x0 - (size[1] - r.width - r.x0)) <= 1
    /\ abs(r.y0 - (size[2] - r.height - r.y0)) <= 1

\* C14: rectangles are ordered by area only; the candidates the detector
\* wrapper returns are its detections sorted ascending by area and the
\* pipeline selects the last one, so with one or more detections the
\* selected candidate is a detection of the largest area, and with none it
\* is the center square of the whole image.
C14_LargestSelected ==
    \A s \in Saved :
        LET detected == s.file.detected
            n == Len(detected)
        IN  /\ \A a, b \in 1..Len(s.candidates) :
                   lt(s.candidates[a], s.candidates[b])
                   <=> Area(s.candidates[a]) < Area(s.candidates[b])
            /\ \A a, b \in 1..Len(s.candidates) :
                   a < b => Area(s.candidates[a]) <= Area(s.candidates[b])
            /\ s.original_rectangle = s.candidates[Len(s.candidates)]
            /\ n >= 1 =>
                   /\ Len(s.candidates) = n
                   /\ \A r \in Rectangles \cup {detected[k] : k \in 1..n} :
                          Cardinality({k \in 1..n : detected[k] = r})
                          = Cardinality({k \in 1..n : s.candidates[k] = r})
                   /\ \A k \in 1..n : Area(s.original_rectangle) >= Area(detected[k])
            /\ n = 0 =>
                   /\ s.candidates = <<s.original_rectangle>>
                   /\ CenterSquare(s.original_rectangle, s.file.size)

\* A file whose largest face was detected first, and a file without faces
\* in a non-square image, both processed in one batch.
C14_Witness ==
    /\ \E s \in Saved :
           /\ Len(s.file.detected) >= 2
           /\ Area(s.file.detected[1]) > Area(s.file.detected[Len(s.file.detected)])
           /\ s.original_rectangle = s.file.detected[1]
    /\ \E s \in Saved :
           /\ s.file.detected = <<>>
           /\ s.file.size[1] # s.file.size[2]

BatchOver == BatchRunning /\ ret.kind # "none"

\* C19: when the detection fails on a file of the list, that file is
\* skipped and every later file is still processed: once face_crop is over,
\* every file after a failing position whose detection succeeds has an
\* output.
C19_BatchNotAborted ==
    BatchOver
    => \A i, j \in 1..Len(call.file_list) :
           (/\ i < j
            /\ ~call.file_list[i].is_file
            /\ call.file_list[j].is_file)
           => \E s \in Saved : s.position = j

(***************************************************************************)
(* Input files.                                                            *)
(***************************************************************************)
CheckCalled == call.op = "check_input_file"

\* Two strings are equal when letter case is ignored.
SameIgnoringCase(a, b) == lower(a) = lower(b)

\* The suffix of the file of the call: the name from its last dot on.
CalledSuffix ==
    LET name == call.file_path.path.name
    IN  IF \E i \in 2..(Len(name) - 1) : name[i] = "."
        THEN SubSeq(name,
                    CHOOSE i \in 2..(Len(name) - 1) :
                        /\ name[i] = "."
                        /\ \A j \in (i + 1)..Len(name) : name[j] # ".",
                    Len(name))
        ELSE <<>>

\* C21: check_input_file raises RuntimeError if the path does not exist,
\* if it is not a regular file, or if extensions are given and the file's
\* suffix matches none of them, letter case ignored; in every other case
\* it returns without error, for a str as for a Path.
C21_CheckInputFile ==
    CheckCalled
    => LET wrong ==
               \/ call.kind # "file"
               \/ /\ Len(call.extensions) # 0
                  /\ \A i \in 1..Len(call.extensions) :
                         ~SameIgnoringCase(call.extensions[i], CalledSuffix)
       IN  IF wrong THEN ret.kind = "raise" ELSE ret = Returned(None)

(***************************************************************************)
(* Option defaults.                                                        *)
(***************************************************************************)
\* The single-key half of C22, which the code meets.
SingleKeyLookup ==
    (call.op = "default_option_value")
    => IF call.key \in OptionKeys
       THEN ret = Returned(OPTION_DICT[call.key])
       ELSE ret = Raised("KeyError")

\* C22: the single-key lookup returns the declared default of a declared
\* key and fails with KeyError for an undeclared one; the bulk lookup
\* returns a mapping whose keys are the requested keys (every declared key
\* when none is requested) and whose values are the single-key lookups.
C22_DefaultLookups ==
    /\ SingleKeyLookup
    /\ (call.op = "default_option_dict")
       => LET keys == IF call.keys = {} THEN OptionKeys ELSE call.keys
          IN  /\ ret.kind = "return"
              /\ DOMAIN ret.value = keys
              /\ \A key \in keys : ret.value[key] = OPTION_DICT[key]

(***************************************************************************)
(* The appearance options of face_crop.                                    *)
(***************************************************************************)
AppearanceGiven ==
    /\ BatchRunning
    /\ {"horizontal_padding", "top_scale_factor"} \subseteq DOMAIN call.kwargs

\* C23: face_crop passes the horizontal_padding and the top_scale_factor
\* given as keyword arguments to the deriver: the crop rectangle of every
\* file is candidate.setup_for_face_cropping(image_width, image_height,
\* horizontal_padding, top_scale_factor) with those two values.
C23_AppearancePassed ==
    AppearanceGiven
    => \A s \in Saved :
           Returned(s.final_rectangle)
           = setup_for_face_cropping(s.original_rectangle, s.file.size[1],
                                     s.file.size[2],
                                     call.kwargs["horizontal_padding"],
                                     call.kwargs["top_scale_factor"])

\* The horizontal_padding half of C23, with the top_scale_factor the code
\* does use: the default of the deriver.
HorizontalPaddingPassed ==
    AppearanceGiven
    => \A s \in Saved :
           Returned(s.final_rectangle)
           = setup_for_face_cropping(s.original_rectangle, s.file.size[1],
                                     s.file.size[2],
                                     call.kwargs["horizontal_padding"], <<5, 4>>)

(***************************************************************************)
(* The center square.                                                      *)
(***************************************************************************)
SquareFromSizeCalled == call.op = "square_from_size"

\* C24: for width >= 1 and height >= 1, square_from_size(width, height) is
\* a square of side min(width, height) inside (0, 0, width, height), with
\* offset 0 along the shorter axis and, along the longer axis, an offset
\* within 1/2 pixel of |width - height| / 2.
C24_SquareFromSize ==
    (SquareFromSizeCalled /\ call.width >= 1 /\ call.height >= 1)
    => /\ ret.kind = "return"
       /\ ret.value.width = min(call.width, call.height)
       /\ ret.value.height = ret.value.width
       /\ 0 <= ret.value.x0
       /\ 0 <= ret.value.y0
       /\ ret.value.x0 + ret.value.width <= call.width
       /\ ret.value.y0 + ret.value.height <= call.height
       /\ call.width <= call.height => ret.value.x0 = 0
       /\ call.height <= call.width => ret.value.y0 = 0
       /\ call.width > call.height
          => abs(2 * ret.value.x0 - (call.width - call.height)) <= 1
       /\ call.height > call.width
          => abs(2 * ret.value.y0 - (call.height - call.width)) <= 1

\* A tall image whose sides differ by an odd number of pixels: the offset
\* is rounded.
C24_Witness ==
    /\ SquareFromSizeCalled
    /\ call.height - call.width >= 3
    /\ (call.height - call.width) % 2 = 1
    /\ ret.kind = "return"
    /\ ret.value.y0 > 0
    /\ ret.value.x0 = 0

(***************************************************************************)
(* The set of tiling plans.                                                *)
(***************************************************************************)
\* The offset of grid slot i, rows filled left to right.
SlotOffset(i) ==
    <<(i % Columns) * call.tile_width, (i \div Columns) * TileHeight>>

\* The plans of the specification: a permutation of the slot indices is
\* drawn and image k gets the k-th permuted slot.
SpecPlans ==
    {[k \in 0..(call.num_images - 1) |-> SlotOffset(q[k])] :
        q \in Permutations(0..(Columns * Rows - 1))}

\* The plan that puts image k in slot k.
SlotOrderPlan == [k \in 0..(call.num_images - 1) |-> SlotOffset(k)]

\* C25: the set of plans the planner can return for given inputs is the
\* set of the plans that give image k the k-th slot of a permutation of
\* the slots: each of these is returned for some draw, and no other plan
\* is.  The two sets depend on the inputs only: they are compared once for
\* each input, where the code returned the plan in slot order.
C25_PlanSet ==
    (/\ TilingCalled
     /\ call.num_images >= 1
     /\ ret = Returned(SlotOrderPlan))
    => optimal_rectangular_tiling(call.num_images, call.tile_width,
                                  call.tile_height, call.aspect_ratio)
       = {Returned(plan) : plan \in SpecPlans}

\* Three images on a grid of four slots: twenty-four plans.
C25_Witness ==
    /\ TilingCalled
    /\ call.num_images = 3
    /\ Columns * Rows = 4
    /\ ret = Returned(SlotOrderPlan)
    /\ Cardinality(SpecPlans) = 24

(***************************************************************************)
(* The face stays in the crop.                                             *)
(***************************************************************************)
\* Rectangle outer contains the whole of rectangle inner.
Contains(outer, inner) ==
    /\ outer.x0 <= inner.x0
    /\ outer.y0 <= inner.y0
    /\ inner.x0 + inner.width <= outer.x0 + outer.width
    /\ inner.y0 + inner.height <= outer.y0 + outer.height

\* A deriver call on a square candidate inside the image with
\* horizontal_padding >= 0 and 0 <= top_scale_factor <= 2.
FaceInsideImage ==
    /\ SetupCalled
    /\ is_square(self)
    /\ Inside(self, call.image_width, call.image_height)
    /\ call.horizontal_padding[1] >= 0
    /\ call.top_scale_factor[1] >= 0
    /\ call.top_scale_factor[1] <= 2 * call.top_scale_factor[2]

\* C26: the detected face is never cropped out: for a square candidate
\* inside the image, horizontal_padding >= 0 and 0 <= top_scale_factor <= 2,
\* the rectangle the deriver returns contains the whole candidate, in
\* Case A and in Case B.
C26_FaceKept ==
    FaceInsideImage
    => /\ ret.kind = "return"
       /\ Contains(ret.value, self)

\* Case B on a face in the corner of the image: the crop is larger than
\* the face and was shifted to stay inside the image.
C26_Witness ==
    /\ FaceInsideImage
    /\ CaseB
    /\ self.width > 0
    /\ self.x0 = 0
    /\ ret.kind = "return"
    /\ ret.value.width > self.width
    /\ ret.value.x0 # self.x0 - (ret.value.width - self.width) \div 2
    /\ Contains(ret.value, self)

(***************************************************************************)
(* No face detected.                                                       *)
(***************************************************************************)
\* The deriver is called on the center square of the image of the call,
\* as face_crop does when no face is detected.
NoFaceCall ==
    /\ SetupCalled
    /\ self = square_from_size(call.image_width, call.image_height)
    /\ call.horizontal_padding[1] >= 0
    /\ call.top_scale_factor[1] >= 0

\* C27: when no face is detected the final crop is the centered largest
\* square itself: for every image size >= 1x1, horizontal_padding >= 0 and
\* top_scale_factor >= 0, the deriver applied to square_from_size(
\* image_width, image_height) returns a rectangle equal to that square.
C27_NoFaceCrop ==
    NoFaceCall => ret = Returned(self)

\* A wide image, whose center square is off the origin, and a padding that
\* does not fit.
C27_Witness ==
    /\ NoFaceCall
    /\ CaseB
    /\ call.image_width > call.image_height
    /\ self.x0 > 0
    /\ Padded.width > self.width
    /\ ret = Returned(self)

(***************************************************************************)
(* The box handed to the crop.                                             *)
(***************************************************************************)
\* C28: whenever the deriver returns normally, the bounding box (xmin,
\* ymin, xmax, ymax) of its result that face_crop hands to the resize and
\* crop step lies inside the image: 0 <= xmin <= xmax <= image_width and
\* 0 <= ymin <= ymax <= image_height.
C28_BoxInsideImage ==
    \A s \in Saved :
        /\ 0 <= s.box[1]
        /\ s.box[1] <= s.box[3]
        /\ s.box[3] <= s.file.size[1]
        /\ 0 <= s.box[2]
        /\ s.box[2] <= s.box[4]
        /\ s.box[4] <= s.file.size[2]

\* The rectangle the box is taken from does lie inside the image.
FinalRectangleInside ==
    \A s \in Saved : Inside(s.final_rectangle, s.file.size[1], s.file.size[2])

(***************************************************************************)
(* The rows of the tiling and the empty tiling.                            *)
(***************************************************************************)
\* C29: the planner never adds a superfluous row: for num_images >= 1 the
\* row count is the smallest that holds all images with the computed
\* columns, rows = ceil(num_images / columns) and (rows - 1) * columns <
\* num_images.
C29_NoSuperfluousRow ==
    (TilingCalled /\ call.num_images >= 1)
    => /\ Rows = (call.num_images + Columns - 1) \div Columns
       /\ (Rows - 1) * Columns < call.num_images

\* What the code does meet: at most one row more than needed.
AtMostOneRowMore ==
    (TilingCalled /\ call.num_images >= 1)
    => /\ Rows * Columns >= call.num_images
       /\ (Rows - 2) * Columns < call.num_images

\* C30: the planner returns normally for any number of images, zero
\* included: the plan it returns has exactly num_images entries, and is
\* empty for num_images = 0.
C30_AnyNumberOfImages ==
    TilingCalled
    => /\ ret.kind = "return"
       /\ DOMAIN ret.value = 0..(call.num_images - 1)

====
